---- MODULE Spec2Model ----
(***************************************************************************)
(* curlpad: the command validation, payload formatting, confirmation and  *)
(* execution pipeline of src/src/curlpad (commands.py, cli.py, utils.py,  *)
(* output.py).  Command strings are TLA+ strings; Ch(s, i) is the         *)
(* character at position i of s.                                          *)
(***************************************************************************)
EXTENDS Integers, Sequences, FiniteSets, TLC

VARIABLES
    osName,       \* os.name of the run: "posix" or "nt"
    jqAvail,      \* shutil.which('jq') is not None
    stdinOpen,    \* sys.stdin is not None
    commands,     \* main's local `commands`
    pc,           \* position in main()
    idx,          \* index of the for loop main() is in (1-based)
    fmtInputs,    \* the list handed to format_json_with_jq, <<>> before the call
    jqExits,      \* per command of that list: jq would exit 0
    validated,    \* strings for which main's validate_command call returned True
    attempted,    \* the commands run_command was called with, in order
    spawned,      \* the commands a curl process was spawned for, in order
    reported,     \* print_error calls of run_command: [cmd, kind]
    child,        \* the curl child process: "none", "running", "exited", "killed"
    confirmed,    \* what confirm_execution returned: "none", "yes", "no"
    exitCode,     \* exit status of the process, -1 while it runs
    exitVia,      \* how the process ended
    exitAt,       \* the position in main() at which it ended
    tempClean,    \* cleanup_temp_files() has run
    ucmd,         \* unit harness: the string under test
    uphase,       \* unit harness: which operation has been applied
    ures          \* outcome of the operation applied (unit harness), and what the
                  \* prompts of confirm_execution did (main)

vars == <<osName, jqAvail, stdinOpen, commands, pc, idx, fmtInputs, jqExits, validated,
          attempted, spawned, reported, child, confirmed, exitCode, exitVia,
          exitAt, tempClean, ucmd, uphase, ures>>

pipeVars == <<osName, jqAvail, stdinOpen, commands, pc, idx, fmtInputs, jqExits, validated,
              attempted, spawned, reported, child, confirmed, exitCode, exitVia,
              exitAt, tempClean>>

unitVars == <<ucmd, uphase, ures>>

-----------------------------------------------------------------------------
(* Python string primitives                                                *)

\* s[lo-1:hi] of Python: the characters at positions lo..hi that exist
Slice(s, lo, hi) ==
    LET a == IF lo < 1 THEN 1 ELSE lo
        b == IF hi > Len(s) THEN Len(s) ELSE hi
    IN  IF a > b THEN "" ELSE SubSeq(s, a, b)

\* the character at position i, "" past either end
Ch(s, i) == Slice(s, i, i)

PyWhitespace == {" ", "\t", "\n", "\r"}

StartsWith(s, p) == Len(s) >= Len(p) /\ Slice(s, 1, Len(p)) = p

EndsWith(s, p) == Len(s) >= Len(p) /\ Slice(s, Len(s) - Len(p) + 1, Len(s)) = p

\* `p in s`
Contains(s, p) ==
    \E i \in 1..(Len(s) - Len(p) + 1) : Slice(s, i, i + Len(p) - 1) = p

\* index of the first occurrence of p in s at or after position from, 0 if none
FindFrom(s, p, from) ==
    LET hits == {i \in from..(Len(s) - Len(p) + 1) : Slice(s, i, i + Len(p) - 1) = p}
    IN  IF hits = {} THEN 0 ELSE CHOOSE i \in hits : \A j \in hits : i <= j

\* str.lstrip()
LStrip(s) ==
    LET keep == {i \in 1..Len(s) : Ch(s, i) \notin PyWhitespace}
    IN  IF keep = {} THEN ""
        ELSE Slice(s, CHOOSE i \in keep : \A j \in keep : i <= j, Len(s))

\* str.rstrip()
RStrip(s) ==
    LET keep == {i \in 1..Len(s) : Ch(s, i) \notin PyWhitespace}
    IN  IF keep = {} THEN ""
        ELSE Slice(s, 1, CHOOSE i \in keep : \A j \in keep : i >= j)

\* str.strip()
Strip(s) == LStrip(RStrip(s))

\* part.split('=')[0]
SplitEqHead(s) ==
    LET k == FindFrom(s, "=", 1)
    IN  IF k = 0 THEN s ELSE Slice(s, 1, k - 1)

RECURSIVE Concat(_)
Concat(ss) == IF ss = <<>> THEN "" ELSE Head(ss) \o Concat(Tail(ss))

-----------------------------------------------------------------------------
(* shlex.split(s, posix=True): whitespace_split, no commenters             *)

ShlexWhitespace == {" ", "\t", "\r", "\n"}
ShlexQuotes == {"'", "\""}
ShlexEscape == {"\\"}
ShlexEscapedQuotes == {"\""}

ShlexStart ==
    [state |-> " ", escapedstate |-> " ", token |-> "", quoted |-> FALSE,
     parts |-> <<>>, ok |-> TRUE]

\* One character c read by shlex.read_token (posix branch).  state is " "
\* (between tokens), "a" (in a word), a quote character or the escape
\* character; a token is appended to parts when read_token returns it.
shlex_posix_char(st, c) ==
    CASE ~st.ok -> st
      [] st.ok /\ st.state = " " /\ c \in ShlexWhitespace -> st
      [] st.ok /\ st.state = " " /\ c \in ShlexEscape ->
            [st EXCEPT !.escapedstate = "a", !.state = c]
      [] st.ok /\ st.state = " " /\ c \in ShlexQuotes ->
            [st EXCEPT !.state = c]
      [] st.ok /\ st.state = " " /\ c \notin ShlexWhitespace \cup ShlexEscape \cup ShlexQuotes ->
            [st EXCEPT !.token = c, !.state = "a"]
      [] st.ok /\ st.state \in ShlexQuotes /\ c = st.state ->
            [st EXCEPT !.quoted = TRUE, !.state = "a"]
      [] st.ok /\ st.state \in ShlexQuotes /\ c # st.state
               /\ c \in ShlexEscape /\ st.state \in ShlexEscapedQuotes ->
            [st EXCEPT !.quoted = TRUE, !.escapedstate = st.state, !.state = c]
      [] st.ok /\ st.state \in ShlexQuotes /\ c # st.state
               /\ ~(c \in ShlexEscape /\ st.state \in ShlexEscapedQuotes) ->
            [st EXCEPT !.quoted = TRUE, !.token = st.token \o c]
      [] st.ok /\ st.state \in ShlexEscape ->
            [st EXCEPT !.token =
                          IF st.escapedstate \in ShlexQuotes /\ c # st.state
                                /\ c # st.escapedstate
                          THEN (st.token \o st.state) \o c
                          ELSE st.token \o c,
                       !.state = st.escapedstate]
      [] st.ok /\ st.state = "a" /\ c \in ShlexWhitespace ->
            [st EXCEPT !.state = " ", !.token = "", !.quoted = FALSE,
                       !.parts = IF st.token # "" \/ st.quoted
                                 THEN Append(st.parts, st.token) ELSE st.parts]
      [] st.ok /\ st.state = "a" /\ c \in ShlexQuotes ->
            [st EXCEPT !.state = c]
      [] st.ok /\ st.state = "a" /\ c \in ShlexEscape ->
            [st EXCEPT !.escapedstate = "a", !.state = c]
      [] st.ok /\ st.state = "a" /\ c \notin ShlexWhitespace \cup ShlexEscape \cup ShlexQuotes ->
            [st EXCEPT !.token = st.token \o c]

\* the characters s[lo..hi] read in order from lexer state st
RECURSIVE shlex_posix_run(_, _, _, _)
shlex_posix_run(s, lo, hi, st) ==
    IF lo > hi THEN st
    ELSE IF lo = hi THEN shlex_posix_char(st, Ch(s, lo))
    ELSE LET mid == (lo + hi) \div 2
             left == shlex_posix_run(s, lo, mid, st)
         IN  IF left.ok THEN shlex_posix_run(s, mid + 1, hi, left) ELSE left

\* end of input: ValueError inside a quote ("No closing quotation") or after
\* an escape ("No escaped character"), else the last token is returned
shlex_posix_eof(st) ==
    IF st.state \in ShlexQuotes \cup ShlexEscape THEN [ok |-> FALSE, parts |-> <<>>]
    ELSE IF st.state = "a" /\ (st.token # "" \/ st.quoted)
        THEN [ok |-> TRUE, parts |-> Append(st.parts, st.token)]
    ELSE [ok |-> TRUE, parts |-> st.parts]

shlex_split_posix(s) == shlex_posix_eof(shlex_posix_run(s, 1, Len(s), ShlexStart))

\* One character c read by shlex.read_token with posix=False: no escapes, the
\* quotes stay in the token, and a closing quote ends the token.
shlex_nonposix_char(st, c) ==
    CASE ~st.ok -> st
      [] st.ok /\ st.state = " " /\ c \in ShlexWhitespace -> st
      [] st.ok /\ st.state = " " /\ c \in ShlexQuotes ->
            [st EXCEPT !.token = c, !.state = c]
      [] st.ok /\ st.state = " " /\ c \notin ShlexWhitespace \cup ShlexQuotes ->
            [st EXCEPT !.token = c, !.state = "a"]
      [] st.ok /\ st.state \in ShlexQuotes /\ c = st.state ->
            [st EXCEPT !.state = " ", !.token = "",
                       !.parts = Append(st.parts, st.token \o c)]
      [] st.ok /\ st.state \in ShlexQuotes /\ c # st.state ->
            [st EXCEPT !.token = st.token \o c]
      [] st.ok /\ st.state = "a" /\ c \in ShlexWhitespace ->
            [st EXCEPT !.state = " ", !.token = "",
                       !.parts = IF st.token # "" THEN Append(st.parts, st.token)
                                 ELSE st.parts]
      [] st.ok /\ st.state = "a" /\ c \notin ShlexWhitespace ->
            [st EXCEPT !.token = st.token \o c]

RECURSIVE shlex_nonposix_run(_, _, _, _)
shlex_nonposix_run(s, lo, hi, st) ==
    IF lo > hi THEN st
    ELSE IF lo = hi THEN shlex_nonposix_char(st, Ch(s, lo))
    ELSE LET mid == (lo + hi) \div 2
             left == shlex_nonposix_run(s, lo, mid, st)
         IN  IF left.ok THEN shlex_nonposix_run(s, mid + 1, hi, left) ELSE left

shlex_nonposix_eof(st) ==
    IF st.state \in ShlexQuotes THEN [ok |-> FALSE, parts |-> <<>>]
    ELSE IF st.state = "a" /\ st.token # ""
        THEN [ok |-> TRUE, parts |-> Append(st.parts, st.token)]
    ELSE [ok |-> TRUE, parts |-> st.parts]

shlex_split_nonposix(s) == shlex_nonposix_eof(shlex_nonposix_run(s, 1, Len(s), ShlexStart))

\* shlex.split(s, posix=posix)
shlex_split(s, posix) ==
    IF posix THEN shlex_split_posix(s) ELSE shlex_split_nonposix(s)

-----------------------------------------------------------------------------
(* commands.py: the validator's tables                                     *)

ALLOWED_CMD == "curl"

BLOCKED_FLAGS == {"--exec", "-e", "--eval", "-K", "--config", "--write-out", "-w"}

ALLOWED_FLAGS == {
    "-X", "GET", "POST", "PUT", "DELETE", "PATCH", "HEAD", "OPTIONS",
    "-H", "--header", "-d", "--data", "--data-raw", "--data-binary", "--data-urlencode",
    "--url", "-i", "--include", "-v", "--verbose", "-s", "--silent", "-S", "--show-error",
    "-o", "--output", "-O", "--remote-name", "-L", "--location", "-k", "--insecure",
    "--connect-timeout", "--max-time", "-m", "--max-redirs",
    "-u", "--user", "-x", "--proxy", "--proxy-user",
    "-A", "--user-agent", "-b", "--cookie", "-c", "--cookie-jar",
    "-e", "--referer", "-f", "--fail", "-I", "--head",
    "--compressed", "--digest", "--negotiate", "--ntlm", "--basic",
    "--cert", "--key", "--cacert", "--capath",
    "-4", "-6", "--ipv4", "--ipv6",
    "-g", "--globoff", "-j", "--junk-session-cookies",
    "-1", "--tlsv1", "--tlsv1.0", "--tlsv1.1", "--tlsv1.2", "--tlsv1.3",
    "--ssl", "--ssl-reqd", "--sslv2", "--sslv3",
    "-#", "--progress-bar", "-N", "--no-buffer",
    "--raw", "--tr-encoding", "--no-keepalive", "--no-sessionid",
    "--noproxy", "--local-port", "--interface", "--dns-servers",
    "--keepalive-time", "--no-alpn", "--no-npn",
    "--http1.0", "--http1.1", "--http2", "--http2-prior-knowledge",
    "-0" }

\* The backquote character (0x60) cannot be written in a TLA+ string literal:
\* the circumflex, which no input of the model uses otherwise, stands for it.
BACKQUOTE == "^"

\* the list without its ";" entry
DANGEROUS_PATTERNS_no_semicolon ==
    <<"&&", "||", "|", "$", BACKQUOTE, "$(", "${", ">", "<", "\n", "\r">>

\* the pre-filter without the patterns of command and variable substitution
DANGEROUS_PATTERNS_no_substitution ==
    <<"&&", "||", ";", "|", ">", "<", "\n", "\r">>

DANGEROUS_PATTERNS ==
    <<"&&", "||", ";", "|", "$", BACKQUOTE, "$(", "${", ">", "<", "\n", "\r">>

ARG_PATTERNS == <<BACKQUOTE, "$(", "${">>

\* the first pattern of the list found in s, "" if none
RECURSIVE FirstPatternIn(_, _)
FirstPatternIn(patterns, s) ==
    IF patterns = <<>> THEN ""
    ELSE IF Contains(s, Head(patterns)) THEN Head(patterns)
    ELSE FirstPatternIn(Tail(patterns), s)

-----------------------------------------------------------------------------
(* commands.py: validate_command                                           *)

Verdict(ok, rule, tokenized, parts) ==
    [ok |-> ok, rule |-> rule, tokenized |-> tokenized, parts |-> parts]

\* check_part without the `flag not in _ALLOWED_FLAGS` test
check_part_no_allowlist(part) ==
    IF StartsWith(part, "-") THEN
        (IF SplitEqHead(part) \in BLOCKED_FLAGS THEN "blocked" ELSE "")
    ELSE IF FirstPatternIn(ARG_PATTERNS, part) # "" THEN "substitution"
    ELSE ""

\* check_part consulting the allowlist before the blocklist
check_part_allowlist_first(part) ==
    IF StartsWith(part, "-") THEN
        LET flag == SplitEqHead(part)
        IN  IF flag \in ALLOWED_FLAGS THEN ""
            ELSE IF flag \in BLOCKED_FLAGS THEN "blocked"
            ELSE "allowlist"
    ELSE IF FirstPatternIn(ARG_PATTERNS, part) # "" THEN "substitution"
    ELSE ""

\* the check of one argument, parts[i] with i > 1: "" when it passes
check_part(part) ==
    IF StartsWith(part, "-") THEN
        LET flag == SplitEqHead(part)
        IN  IF flag \in BLOCKED_FLAGS THEN "blocked"
            ELSE IF flag \notin ALLOWED_FLAGS THEN "allowlist"
            ELSE ""
    ELSE IF FirstPatternIn(ARG_PATTERNS, part) # "" THEN "substitution"
    ELSE ""

\* the while loop over parts[1:]
RECURSIVE validate_parts(_, _)
validate_parts(parts, i) ==
    IF i > Len(parts) THEN ""
    ELSE IF check_part(parts[i]) # "" THEN check_part(parts[i])
    ELSE validate_parts(parts, i + 1)

\* the first token compared by prefix
first_token_ok_prefix(parts) == parts # <<>> /\ StartsWith(parts[1], ALLOWED_CMD)

\* `not parts or parts[0] != _ALLOWED_CMD` is false
first_token_ok(parts) == parts # <<>> /\ parts[1] = ALLOWED_CMD

\* the multiline test looking for the line feed only
is_multiline_lf_only(cmd) == Contains(cmd, "\n")

\* `'\n' in cmd or '\r' in cmd`
is_multiline(cmd) == Contains(cmd, "\n") \/ Contains(cmd, "\r")

\* the ValueError of shlex.split leaving validate_command
except_ValueError_reraised == Verdict(FALSE, "raised", TRUE, <<>>)

\* `except (ValueError, AttributeError) as e: ... return False`
except_ValueError == Verdict(FALSE, "parse", TRUE, <<>>)

\* validate_command with the rule that decided and whether shlex.split ran
validate_trace(command) ==
    LET cmd == Strip(command)
        sp == shlex_split_posix(cmd)
    IN  IF cmd = "" THEN Verdict(FALSE, "empty", FALSE, <<>>)
        ELSE IF is_multiline(cmd)
            THEN Verdict(FALSE, "multiline", FALSE, <<>>)
        ELSE IF FirstPatternIn(DANGEROUS_PATTERNS, cmd) # ""
            THEN Verdict(FALSE, "pattern", FALSE, <<>>)
        ELSE IF ~sp.ok THEN except_ValueError
        ELSE IF ~first_token_ok(sp.parts)
            THEN Verdict(FALSE, "command", TRUE, sp.parts)
        ELSE IF validate_parts(sp.parts, 2) # ""
            THEN Verdict(FALSE, validate_parts(sp.parts, 2), TRUE, sp.parts)
        ELSE Verdict(TRUE, "accepted", TRUE, sp.parts)

validate_command(command) == validate_trace(command).ok

-----------------------------------------------------------------------------
(* commands.py: format_json_with_jq                                        *)

MinOf(S) == CHOOSE i \in S : \A j \in S : i <= j
MaxOf(S) == CHOOSE i \in S : \A j \in S : i >= j

RegexWhitespace == {" ", "\t", "\n", "\r"}

\* `.` matches every character but the newline
NoNewline(l, lo, hi) == \A k \in lo..hi : Ch(l, k) # "\n"

\* after "-d" at b: \s* up to the opening quote
QuoteAfter(l, b) ==
    LET rest == {k \in (b + 2)..Len(l) : Ch(l, k) \notin RegexWhitespace}
    IN  IF rest = {} THEN 0 ELSE MinOf(rest)

\* the tail of the pattern, -d\s*['"]({[^}]*})['"], matches at b
PayloadAt(l, b) ==
    LET q == QuoteAfter(l, b)
        r == FindFrom(l, "}", q + 2)
    IN  /\ Slice(l, b, b + 1) = "-d"
        /\ q # 0
        /\ Ch(l, q) \in {"'", "\""}
        /\ Ch(l, q + 1) = "{"
        /\ r # 0
        /\ Ch(l, r + 1) \in {"'", "\""}

\* the positions b of "-d" that `curl.*-d...` reaches from "curl" at a
PayloadsFrom(l, a) ==
    {b \in (a + 4)..Len(l) : PayloadAt(l, b) /\ NoNewline(l, a + 4, b - 1)}

CurlStarts(l) ==
    {a \in 1..Len(l) : Slice(l, a, a + 3) = "curl" /\ PayloadsFrom(l, a) # {}}

\* the leftmost position from which `.*curl` reaches a
LineStart(l, a) ==
    LET nl == {k \in 1..(a - 1) : Ch(l, k) = "\n"}
    IN  IF nl = {} THEN 1 ELSE MaxOf(nl) + 1

\* the match with a reluctant second .*: the first payload after "curl"
payload_match_first(l) ==
    IF CurlStarts(l) = {} THEN [found |-> FALSE, before |-> "", json |-> "", after |-> ""]
    ELSE LET s == MinOf({LineStart(l, a) : a \in CurlStarts(l)})
             a == MaxOf({x \in CurlStarts(l) : LineStart(l, x) <= s})
             b == MinOf(PayloadsFrom(l, a))
             q == QuoteAfter(l, b)
             r == FindFrom(l, "}", q + 2)
             nl == FindFrom(l, "\n", r + 2)
             e == IF nl = 0 THEN Len(l) ELSE nl - 1
         IN  [found |-> TRUE,
              before |-> Slice(l, s, q),
              json |-> Slice(l, q + 1, r),
              after |-> Slice(l, r + 1, e)]

\* re.search(r'(.*curl.*-d\s*[\'"])({[^}]*})([\'"].*)', line): leftmost start,
\* then each greedy .* as long as the rest still matches
payload_match(l) ==
    IF CurlStarts(l) = {} THEN [found |-> FALSE, before |-> "", json |-> "", after |-> ""]
    ELSE LET s == MinOf({LineStart(l, a) : a \in CurlStarts(l)})
             a == MaxOf({x \in CurlStarts(l) : LineStart(l, x) <= s})
             b == MaxOf(PayloadsFrom(l, a))
             q == QuoteAfter(l, b)
             r == FindFrom(l, "}", q + 2)
             nl == FindFrom(l, "\n", r + 2)
             e == IF nl = 0 THEN Len(l) ELSE nl - 1
         IN  [found |-> TRUE,
              before |-> Slice(l, s, q),
              json |-> Slice(l, q + 1, r),
              after |-> Slice(l, r + 1, e)]

\* the characters of s at the positions lo..hi that are in keep, in order
RECURSIVE KeepChars(_, _, _, _)
KeepChars(s, lo, hi, keep) ==
    IF lo > hi THEN ""
    ELSE IF lo = hi THEN (IF lo \in keep THEN Ch(s, lo) ELSE "")
    ELSE LET mid == (lo + hi) \div 2
             left == KeepChars(s, lo, mid, keep)
         IN  IF Len(left) >= 0 THEN left \o KeepChars(s, mid + 1, hi, keep) ELSE left

\* position i of a JSON text lies inside a string literal
InJsonString(s, i) ==
    Cardinality({j \in 1..(i - 1) : Ch(s, j) = "\"" /\ (j = 1 \/ Ch(s, j - 1) # "\\")}) % 2 = 1

\* stdout of `jq -c .` on a JSON text it accepts: the text on one line with
\* the whitespace between its tokens removed
jq_compact(json) ==
    KeepChars(json, 1, Len(json),
              {i \in 1..Len(json) : Ch(json, i) \notin RegexWhitespace \/ InJsonString(json, i)})
        \o "\n"

\* format_line rebuilding the line from the empty output of a failed jq
format_line_splice_on_failure(line, jqOk) ==
    LET m == payload_match(line)
    IN  IF m.found
        THEN [line |-> (m.before \o (IF jqOk THEN Strip(jq_compact(m.json)) ELSE ""))
                          \o m.after,
              error |-> FALSE]
        ELSE [line |-> line, error |-> FALSE]

\* one command of the loop; jqOk: jq exited 0 (else CalledProcessError,
\* which the loop catches).  error: an exception leaves the function.
format_line(line, jqOk) ==
    LET m == payload_match(line)
    IN  IF m.found /\ jqOk
        THEN [line |-> (m.before \o Strip(jq_compact(m.json))) \o m.after, error |-> FALSE]
        ELSE [line |-> line, error |-> FALSE]

\* format_json_with_jq(commands); jqOks[i]: the exit of the jq run for
\* commands[i], read only when the pattern matches
format_json_with_jq(cmds, hasJq, jqOks) ==
    IF ~hasJq THEN [lines |-> cmds, error |-> FALSE]
    ELSE [lines |-> [i \in 1..Len(cmds) |-> format_line(cmds[i], jqOks[i]).line],
          error |-> \E i \in 1..Len(cmds) : format_line(cmds[i], jqOks[i]).error]

-----------------------------------------------------------------------------
(* commands.py: run_curl_command                                           *)

\* run_curl_command without its validate_command guard
run_curl_command_unguarded(command, windows, spawnOk) ==
    LET sp == shlex_split(command, ~windows)
    IN  IF ~sp.ok \/ sp.parts = <<>> \/ ~spawnOk
        THEN [outcome |-> "RuntimeError", spawned |-> FALSE, argv |-> <<>>]
        ELSE [outcome |-> "result", spawned |-> TRUE, argv |-> sp.parts]

\* run_curl_command(command, windows=...); spawnOk: subprocess.run finds and
\* starts the program (else OSError).  outcome is the exception raised, or
\* "result" when a CompletedProcess is returned.
run_curl_command(command, windows, spawnOk) ==
    IF ~validate_command(command)
    THEN [outcome |-> "ValueError", spawned |-> FALSE, argv |-> <<>>]
    ELSE LET sp == shlex_split(command, ~windows)
         IN  IF ~sp.ok \/ sp.parts = <<>> \/ ~spawnOk
             THEN [outcome |-> "RuntimeError", spawned |-> FALSE, argv |-> <<>>]
             ELSE [outcome |-> "result", spawned |-> TRUE, argv |-> sp.parts]

-----------------------------------------------------------------------------
(* cli.py: confirm_execution                                               *)

\* what input() does at the prompt.  utils.py replaces the default SIGINT
\* handler at import, so input() never raises KeyboardInterrupt: an
\* interrupt runs signal_handler instead.
StdinEvents == {"enter", "eof"}

\* MessageBoxW: returns IDOK, returns any other value, or the call raises
MsgBoxResults == {"ok", "cancel", "error"}

\* confirm_execution returning False when the MessageBoxW call raises
confirm_execution_box_error_cancels(hasStdin, event, os, msgbox) ==
    IF hasStdin /\ event = "enter" THEN "yes"
    ELSE IF os = "nt" /\ msgbox = "ok" THEN "yes"
    ELSE IF os = "nt" THEN "no"
    ELSE "yes"

\* confirm_execution(commands): "yes" for True, "no" for False
confirm_execution(hasStdin, event, os, msgbox) ==
    IF hasStdin /\ event = "enter" THEN "yes"
    ELSE IF os = "nt" /\ msgbox = "ok" THEN "yes"
    ELSE IF os = "nt" /\ msgbox = "cancel" THEN "no"
    ELSE "yes"

-----------------------------------------------------------------------------
(* Bounds and inputs                                                       *)

MaxBatch == 2      \* commands in the edited buffer
MaxPieces == 2     \* pieces after the leading word of a string under test

CmdGet == "curl -X GET \"h://x\""
CmdPost == "curl \"h://x\" -d '{\"a\": 1}'"
CmdBlocked == "curl \"h://x\" --data '{\"a\":1}' -K /etc/passwd"
CmdMeta == "curl \"h://x\"; rm -rf /"
CmdNtQuote == "curl \"\\\"\""

\* what extract_commands can return for the edited buffer: trimmed one-line
\* strings that start with "curl"
CommandPool == {CmdGet, CmdPost, CmdBlocked, CmdMeta, CmdNtQuote}

Batches == UNION {[1..n -> CommandPool] : n \in 0..MaxBatch}

ReturnCodes == {0, 7}

\* leading words of the strings given to validate_command on its own
UnitLeads == {"curl", "/usr/bin/curl", "curl.exe", "curlx"}

\* what may follow the leading word: plain and quoted arguments, flags
\* (allowed, blocked, unknown, with and without =value), an unbalanced
\* quote, a quoted quote
UnitPieces ==
    {" x", " -X", " -H=v", " -e", " -K", " -Z", " 'a", " \"\\\"\""}

PieceRuns(n) == UNION {[1..k -> UnitPieces] : k \in 0..n}

\* the shell metacharacter sequences a command line must not contain
ShellMetachars == {";", "|", BACKQUOTE, "$(", "&&", "||", "$", "${", ">", "<"}

\* a metacharacter sequence in an argument: bare, inside single quotes,
\* inside double quotes and followed by an allowed flag
MetaPieces ==
    UNION {{(" a" \o m) \o "b", (" 'a" \o m) \o "b'", (" \"" \o m) \o "\" -X"} :
           m \in ShellMetachars}

\* strings with line feeds and carriage returns before, inside and after
\* the command, alone and inside a quoted argument
LineBreaks == {"", "\n", "\r", " \r\n"}

MultilineInputs ==
    {((pre \o "curl") \o mid) \o ("x" \o post) :
        pre \in LineBreaks, post \in LineBreaks,
        mid \in {" ", "\n", "\r", " 'a\nb' "}}

\* commands with quoted and escaped arguments: a quoted URL, a quoted
\* argument with a space, a quoted header value, an escaped space, and a
\* quoted stretch inside a word that holds a blocked flag between spaces
QuotedInputs ==
    {"curl \"h://x\"", "curl 'a b'", "curl -H \"A: b\" x", "curl x\\ y",
     "curl a\" -K /p b\""}

\* the empty string and strings of whitespace
BlankInputs == {"", " ", "\t", "\n", " \r\n "}

UnitInputs ==
    {lead \o Concat(ps) : lead \in UnitLeads, ps \in PieceRuns(MaxPieces)}
    \cup {(lead \o Concat(ps)) \o mp :
            lead \in UnitLeads, ps \in PieceRuns(MaxPieces - 1), mp \in MetaPieces}
    \cup MultilineInputs
    \cup BlankInputs
    \cup QuotedInputs

\* tokens whose flag name validate_command does not allow
DisallowedTokens == {"-Z", "--bogus=v", "-K"}

-----------------------------------------------------------------------------
(* cli.py: main(), from the return of extract_commands                     *)

NoResult ==
    [op |-> "none", ok |-> FALSE, rule |-> "", tokenized |-> FALSE, parts |-> <<>>,
     outcome |-> "", spawned |-> FALSE, argv |-> <<>>, windows |-> FALSE,
     base |-> "", token |-> "", pos |-> 0, want |-> <<>>,
     text |-> "", mode |-> "", starts |-> <<>>]

UnitOff == ucmd = "" /\ uphase = "off" /\ ures = NoResult

Init ==
    /\ osName \in {"posix", "nt"}
    /\ jqAvail \in BOOLEAN
    /\ stdinOpen \in BOOLEAN
    /\ commands \in Batches
    /\ pc = "extracted"
    /\ idx = 0
    /\ fmtInputs = <<>>
    /\ jqExits = <<>>
    /\ validated = {}
    /\ attempted = <<>>
    /\ spawned = <<>>
    /\ reported = <<>>
    /\ child = "none"
    /\ confirmed = "none"
    /\ exitCode = -1
    /\ exitVia = "none"
    /\ exitAt = "none"
    /\ tempClean = FALSE
    /\ UnitOff

\* print_error: the message, cleanup_temp_files(), sys.exit(1)
PrintErrorStatus == 1

\* signal_handler: cleanup_temp_files(), sys.exit(1)
SignalStatus == 1

\* main() returns and the interpreter exits; atexit runs cleanup_temp_files
ReturnStatus == 0

\* the process ends at the current position of main()
ExitProcess(code, via) ==
    /\ pc' = "done"
    /\ exitCode' = code
    /\ exitVia' = via
    /\ exitAt' = pc
    /\ tempClean' = TRUE

\* `if not commands:` print_warning and return
NoCommands ==
    /\ pc = "extracted"
    /\ commands = <<>>
    /\ ExitProcess(ReturnStatus, "no_commands")
    /\ UNCHANGED <<osName, jqAvail, stdinOpen, commands, idx, fmtInputs, jqExits,
                   validated, attempted, spawned, reported, child, confirmed>>
    /\ UNCHANGED unitVars

\* the exits jq can have in one call of format_json_with_jq: jq runs for
\* commands[i] only when it is installed and the pattern matches; where it
\* does not run the entry stays TRUE
JqRuns(cmds, hasJq) ==
    {oks \in [1..Len(cmds) -> BOOLEAN] :
        \A i \in 1..Len(cmds) : ~(hasJq /\ payload_match(cmds[i]).found) => oks[i]}

\* commands = format_json_with_jq(commands)
Format ==
    /\ pc = "extracted"
    /\ commands # <<>>
    /\ \E jqOks \in JqRuns(commands, jqAvail) :
          LET r == format_json_with_jq(commands, jqAvail, jqOks)
          IN  /\ fmtInputs' = commands
              /\ jqExits' = jqOks
              /\ IF r.error
                 THEN /\ ExitProcess(PrintErrorStatus, "traceback")
                      /\ UNCHANGED <<commands, idx>>
                 ELSE /\ commands' = r.lines
                      /\ pc' = "validate"
                      /\ idx' = 1
                      /\ UNCHANGED <<exitCode, exitVia, exitAt, tempClean>>
    /\ UNCHANGED <<osName, jqAvail, stdinOpen, validated, attempted, spawned,
                   reported, child, confirmed>>
    /\ UNCHANGED unitVars

\* the loop body going on after a rejected command
validate_loop_step_skip(cmd) == "next"

\* the body of `for i, cmd in enumerate(commands, 1)`: what main does with cmd
validate_loop_step(cmd) ==
    IF ~validate_command(cmd) THEN "print_error" ELSE "next"

\* the validation loop reading the list as it was before formatting
Validate_unformatted ==
    /\ pc = "validate"
    /\ idx <= Len(commands)
    /\ validated' = IF validate_command(fmtInputs[idx])
                    THEN validated \cup {fmtInputs[idx]} ELSE validated
    /\ IF validate_loop_step(fmtInputs[idx]) = "print_error"
       THEN /\ ExitProcess(PrintErrorStatus, "invalid_command")
            /\ UNCHANGED idx
       ELSE /\ idx' = idx + 1
            /\ pc' = IF idx = Len(commands) THEN "confirm" ELSE "validate"
            /\ UNCHANGED <<exitCode, exitVia, exitAt, tempClean>>
    /\ UNCHANGED <<osName, jqAvail, stdinOpen, commands, fmtInputs, jqExits,
                   attempted, spawned, reported, child, confirmed>>
    /\ UNCHANGED unitVars

\* one iteration of the validation loop
Validate ==
    /\ pc = "validate"
    /\ idx <= Len(commands)
    /\ validated' = IF validate_command(commands[idx])
                    THEN validated \cup {commands[idx]} ELSE validated
    /\ IF validate_loop_step(commands[idx]) = "print_error"
       THEN /\ ExitProcess(PrintErrorStatus, "invalid_command")
            /\ UNCHANGED idx
       ELSE /\ idx' = idx + 1
            /\ pc' = IF idx = Len(commands) THEN "confirm" ELSE "validate"
            /\ UNCHANGED <<exitCode, exitVia, exitAt, tempClean>>
    /\ UNCHANGED <<osName, jqAvail, stdinOpen, commands, fmtInputs, jqExits,
                   attempted, spawned, reported, child, confirmed>>
    /\ UNCHANGED unitVars

\* what input() did in a call of confirm_execution: "none" when
\* sys.stdin is None and input() is not called
PromptEvents(hasStdin) ==
    IF hasStdin THEN StdinEvents ELSE {"none"}

\* what MessageBoxW did in a call of confirm_execution: "none" when the
\* call is not reached (the user pressed Enter, or os.name is not 'nt')
PromptBoxes(os, event) ==
    IF os = "nt" /\ event # "enter" THEN MsgBoxResults ELSE {"none"}

\* `if not confirm_execution(commands): return`; ures keeps what the two
\* prompts of the call did (mode: input(), rule: MessageBoxW)
Confirm ==
    /\ pc = "confirm"
    /\ \E event \in PromptEvents(stdinOpen) :
       \E msgbox \in PromptBoxes(osName, event) :
          LET r == confirm_execution(stdinOpen, event, osName, msgbox)
          IN  /\ confirmed' = r
              /\ ures' = [NoResult EXCEPT !.op = "confirm", !.mode = event,
                                          !.rule = msgbox]
              /\ IF r = "yes"
                 THEN /\ pc' = "execute"
                      /\ idx' = 1
                      /\ UNCHANGED <<exitCode, exitVia, exitAt, tempClean>>
                 ELSE /\ ExitProcess(ReturnStatus, "cancelled")
                      /\ UNCHANGED idx
    /\ UNCHANGED <<osName, jqAvail, stdinOpen, commands, fmtInputs, jqExits,
                   validated, attempted, spawned, reported, child>>
    /\ UNCHANGED <<ucmd, uphase>>

\* run_command(cmd) up to the spawn: run_curl_command raises, and run_command
\* calls print_error, or subprocess.run has started curl
ExecSpawn ==
    /\ pc = "execute"
    /\ idx <= Len(commands)
    /\ \E spawnOk \in BOOLEAN :
          LET cmd == commands[idx]
              r == run_curl_command(cmd, osName = "nt", spawnOk)
          IN  /\ attempted' = Append(attempted, cmd)
              /\ IF r.spawned
                 THEN /\ spawned' = Append(spawned, [cmd |-> cmd, argv |-> r.argv])
                      /\ child' = "running"
                      /\ pc' = "wait"
                      /\ UNCHANGED <<reported, exitCode, exitVia, exitAt, tempClean>>
                 ELSE /\ reported' = Append(reported, [cmd |-> cmd, kind |-> r.outcome])
                      /\ ExitProcess(PrintErrorStatus, "exec_error")
                      /\ UNCHANGED <<spawned, child>>
    /\ UNCHANGED <<osName, jqAvail, stdinOpen, commands, idx, fmtInputs, jqExits,
                   validated, confirmed>>
    /\ UNCHANGED unitVars

\* `if result.returncode != 0:` what run_command does with the exit status
returncode_step(rc) ==
    IF rc # 0 THEN "print_error" ELSE "return"

\* the child ends; run_command renders its output and checks the exit
\* status; after the last command main() returns
ExecWait ==
    /\ pc = "wait"
    /\ \E rc \in ReturnCodes :
          /\ child' = "exited"
          /\ IF returncode_step(rc) = "print_error"
             THEN /\ reported' = Append(reported, [cmd |-> commands[idx], kind |-> "exit_status"])
                  /\ ExitProcess(PrintErrorStatus, "exec_error")
                  /\ UNCHANGED idx
             ELSE /\ UNCHANGED reported
                  /\ IF idx = Len(commands)
                     THEN /\ ExitProcess(ReturnStatus, "finished")
                          /\ UNCHANGED idx
                     ELSE /\ idx' = idx + 1
                          /\ pc' = "execute"
                          /\ UNCHANGED <<exitCode, exitVia, exitAt, tempClean>>
    /\ UNCHANGED <<osName, jqAvail, stdinOpen, commands, fmtInputs, jqExits,
                   validated, attempted, spawned, confirmed>>
    /\ UNCHANGED unitVars

\* the handler ending the process with a running child left as it is
Signal_no_kill ==
    /\ pc # "done"
    /\ ExitProcess(SignalStatus, "signal")
    /\ UNCHANGED <<osName, jqAvail, stdinOpen, commands, idx, fmtInputs, jqExits,
                   validated, attempted, spawned, reported, child, confirmed>>
    /\ UNCHANGED unitVars

\* SIGINT or SIGTERM: signal_handler runs in the main thread; SystemExit
\* leaves subprocess.run, which kills and reaps a running child
Signal ==
    /\ pc # "done"
    /\ ExitProcess(SignalStatus, "signal")
    /\ child' = IF child = "running" THEN "killed" ELSE child
    /\ UNCHANGED <<osName, jqAvail, stdinOpen, commands, idx, fmtInputs, jqExits,
                   validated, attempted, spawned, reported, confirmed>>
    /\ UNCHANGED unitVars

Next ==
    \/ NoCommands
    \/ Format
    \/ Validate
    \/ Confirm
    \/ ExecSpawn
    \/ ExecWait
    \/ Signal

Spec == Init /\ [][Next]_vars

-----------------------------------------------------------------------------
(* validate_command and run_curl_command called on their own               *)

PipeOff ==
    /\ osName = "posix" /\ jqAvail = FALSE /\ stdinOpen = FALSE
    /\ commands = <<>> /\ pc = "off" /\ idx = 0
    /\ fmtInputs = <<>> /\ jqExits = <<>> /\ validated = {}
    /\ attempted = <<>> /\ spawned = <<>> /\ reported = <<>>
    /\ child = "none" /\ confirmed = "none"
    /\ exitCode = -1 /\ exitVia = "none" /\ exitAt = "none" /\ tempClean = FALSE

InitUnit ==
    /\ PipeOff
    /\ ucmd \in UnitInputs
    /\ uphase = "input"
    /\ ures = NoResult

\* validate_command(ucmd)
UValidate ==
    /\ uphase = "input"
    /\ LET v == validate_trace(ucmd)
       IN  ures' = [NoResult EXCEPT !.op = "validate", !.ok = v.ok, !.rule = v.rule,
                                    !.tokenized = v.tokenized, !.parts = v.parts]
    /\ uphase' = "validated"
    /\ UNCHANGED ucmd
    /\ UNCHANGED pipeVars

\* run_curl_command(ucmd, windows=...)
URun ==
    /\ uphase = "input"
    /\ \E windows \in BOOLEAN, spawnOk \in BOOLEAN :
          LET r == run_curl_command(ucmd, windows, spawnOk)
          IN  ures' = [NoResult EXCEPT !.op = "run", !.outcome = r.outcome,
                                       !.spawned = r.spawned, !.argv = r.argv,
                                       !.windows = windows]
    /\ uphase' = "ran"
    /\ UNCHANGED ucmd
    /\ UNCHANGED pipeVars

\* one character of a token as a POSIX shell word writes it
QuoteChar(c) == IF c \in {" ", "\t", "'", "\"", "\\"} THEN "\\" \o c ELSE c

RECURSIVE QuoteRun(_, _, _)
QuoteRun(t, lo, hi) ==
    IF lo > hi THEN ""
    ELSE IF lo = hi THEN QuoteChar(Ch(t, lo))
    ELSE LET mid == (lo + hi) \div 2
             left == QuoteRun(t, lo, mid)
         IN  IF Len(left) >= 0 THEN left \o QuoteRun(t, mid + 1, hi) ELSE left

QuoteToken(t) == IF t = "" THEN "''" ELSE QuoteRun(t, 1, Len(t))

\* the command line whose words are the tokens
RECURSIVE JoinTokens(_)
JoinTokens(ts) ==
    IF ts = <<>> THEN ""
    ELSE IF Len(ts) = 1 THEN QuoteToken(ts[1])
    ELSE (QuoteToken(ts[1]) \o " ") \o JoinTokens(Tail(ts))

InsertAt(ts, k, t) == (SubSeq(ts, 1, k - 1) \o <<t>>) \o SubSeq(ts, k, Len(ts))

\* an accepted command gets one more token, a flag that is not allowed,
\* after its first token
UInsert ==
    /\ uphase = "validated"
    /\ ures.ok
    /\ \E t \in DisallowedTokens, k \in 2..(Len(ures.parts) + 1) :
          /\ ucmd' = JoinTokens(InsertAt(ures.parts, k, t))
          /\ ures' = [NoResult EXCEPT !.op = "insert", !.base = ucmd, !.token = t,
                                      !.pos = k, !.want = InsertAt(ures.parts, k, t)]
    /\ uphase' = "inserted"
    /\ UNCHANGED pipeVars

\* validate_command on the command with the inserted token
URevalidate ==
    /\ uphase = "inserted"
    /\ LET v == validate_trace(ucmd)
       IN  ures' = [ures EXCEPT !.op = "revalidate", !.ok = v.ok, !.rule = v.rule,
                                !.tokenized = v.tokenized, !.parts = v.parts]
    /\ uphase' = "revalidated"
    /\ UNCHANGED ucmd
    /\ UNCHANGED pipeVars

NextUnit ==
    \/ UValidate
    \/ URun
    \/ UInsert
    \/ URevalidate

SpecUnit == InitUnit /\ [][NextUnit]_vars

-----------------------------------------------------------------------------
(* Properties of validate_command and run_curl_command (under SpecUnit)    *)

\* C1: run_curl_command spawns a process for a command string only if
\* validate_command accepts that string; when the validation in the call
\* fails it raises ValueError and nothing is spawned.
C1_SpawnOnlyIfValidated ==
    uphase = "ran" =>
        /\ ures.spawned => validate_command(ucmd)
        /\ ~validate_command(ucmd) =>
              ~ures.spawned /\ ures.outcome = "ValueError" /\ ures.argv = <<>>

\* a string that tokenizes but is not a valid command was refused
C1_Witness ==
    /\ uphase = "ran"
    /\ ures.outcome = "ValueError"
    /\ shlex_split(ucmd, ~ures.windows).ok
    /\ shlex_split(ucmd, ~ures.windows).parts # <<>>

\* C2: a candidate that contains one of the shell metacharacter sequences
\* anywhere, also inside a quoted argument, is rejected, and rejected by
\* the pattern scan, before shlex.split runs.
C2_MetacharRejected ==
    (uphase = "validated" /\ \E m \in ShellMetachars : Contains(ucmd, m)) =>
        ~ures.ok /\ ~ures.tokenized /\ ures.rule = "pattern"

\* the metacharacter is inside double quotes in an otherwise valid command
C2_Witness ==
    /\ uphase = "validated"
    /\ ucmd = "curl -H=v \";\" -X"
    /\ ~ures.ok
    /\ ures.rule = "pattern"

\* C3: in an accepted command every token after the first that starts with
\* '-' has a flag name (the text before the first '=') in the allowlist and
\* not in the blocklist; an accepted command with one more token whose
\* flag name is not allowed is rejected, for that token.
C3_AllowlistDefaultDeny ==
    /\ (uphase = "validated" /\ ures.ok) =>
          \A i \in 2..Len(ures.parts) :
              StartsWith(ures.parts[i], "-") =>
                  /\ SplitEqHead(ures.parts[i]) \in ALLOWED_FLAGS
                  /\ SplitEqHead(ures.parts[i]) \notin BLOCKED_FLAGS
    /\ uphase = "revalidated" =>
          /\ ~ures.ok
          /\ ures.rule \in {"allowlist", "blocked"}
          /\ ures.parts = ures.want

\* an unknown flag put between the tokens of an accepted command
C3_Witness ==
    /\ uphase = "revalidated"
    /\ ures.token = "-Z"
    /\ ures.pos > 1
    /\ ures.pos < Len(ures.want)
    /\ ures.rule = "allowlist"

\* C4: a command with a flag token whose name is in the blocklist is
\* rejected, also when the name is in the allowlist as well ("-e").
C4_BlocklistWins ==
    uphase = "validated" =>
        LET sp == shlex_split_posix(Strip(ucmd))
            blocked == {"--exec", "-e", "--eval", "-K", "--config", "--write-out", "-w"}
        IN  (sp.ok /\ \E i \in 2..Len(sp.parts) :
                         /\ StartsWith(sp.parts[i], "-")
                         /\ SplitEqHead(sp.parts[i]) \in blocked)
            => ~ures.ok

\* "-e", which both sets name, is what the command was rejected for
C4_Witness ==
    /\ uphase = "validated"
    /\ ures.rule = "blocked"
    /\ "-e" \in ALLOWED_FLAGS
    /\ \E i \in 2..Len(ures.parts) : ures.parts[i] = "-e"
    /\ \A i \in 2..Len(ures.parts) : ures.parts[i] # "-K"

\* C5: an accepted command has "curl" exactly as the first token of its
\* POSIX word-splitting; /usr/bin/curl, curl.exe and curlx in that place
\* are rejected.
C5_FirstTokenExact ==
    uphase = "validated" =>
        LET sp == shlex_split_posix(Strip(ucmd))
        IN  /\ ures.ok => sp.ok /\ sp.parts # <<>> /\ sp.parts[1] = "curl"
            /\ (sp.ok /\ sp.parts # <<>>
                      /\ sp.parts[1] \in {"/usr/bin/curl", "curl.exe", "curlx"})
               => ~ures.ok /\ ures.rule \in {"pattern", "command"}

\* a path-prefixed curl followed by allowed arguments only
C5_Witness ==
    /\ uphase = "validated"
    /\ ures.rule = "command"
    /\ Len(ures.parts) > 1
    /\ ures.parts[1] = "/usr/bin/curl"

-----------------------------------------------------------------------------
(* Properties of the pipeline of main() (under Spec)                       *)

Range(f) == {f[i] : i \in DOMAIN f}

\* the characters of t at lo..hi that are not whitespace
RECURSIVE DropSpace(_, _, _)
DropSpace(t, lo, hi) ==
    IF lo > hi THEN ""
    ELSE IF lo = hi THEN (IF Ch(t, lo) \in PyWhitespace THEN "" ELSE Ch(t, lo))
    ELSE LET mid == (lo + hi) \div 2
             left == DropSpace(t, lo, mid)
         IN  IF Len(left) >= 0 THEN left \o DropSpace(t, mid + 1, hi) ELSE left

NoSpace(t) == DropSpace(t, 1, Len(t))

\* C6: when validate_command rejects a command of the batch main()
\* validates, the run ends with a non-zero exit status and no command of
\* the batch is executed, the valid ones before and after it included.
C6_RejectionAborts ==
    (fmtInputs # <<>> /\ \E i \in 1..Len(commands) : ~validate_command(commands[i])) =>
        /\ attempted = <<>>
        /\ spawned = <<>>
        /\ pc \in {"validate", "done"}
        /\ pc = "done" => exitCode # 0 /\ exitVia \in {"invalid_command", "signal"}

\* the run ended on a rejected command that follows a valid one
C6_Witness ==
    /\ pc = "done"
    /\ exitVia = "invalid_command"
    /\ idx = 2
    /\ validated # {}
    /\ exitCode = 1
    /\ attempted = <<>>

\* C7 (as claimed): after a command fails (non-zero exit status, or no
\* spawn) every later command of the batch is still executed.
C7_FailureDoesNotAbort ==
    (pc = "done" /\ reported # <<>> /\ exitVia # "signal") =>
        Len(attempted) = Len(commands)

\* C8 (as claimed): a run that ends at the confirmation prompt, by a
\* refusal or by an interrupt, has executed nothing and exits with status 0.
C8_CancelExitsZero ==
    (pc = "done" /\ exitAt = "confirm") =>
        exitCode = 0 /\ attempted = <<>>

-----------------------------------------------------------------------------
(* format_json_with_jq called on one command line (SpecFormat)             *)

MaxFmtPieces == 2   \* arguments after "curl" in a line given to the formatter

\* arguments of a line: payloads the pattern matches (-d, --data, no space
\* after -d, double quotes), payloads it does not (nested object,
\* unquoted), a plain argument
FormatPieces ==
    {" -d '{\"a\": 1}'", " -d \"{ }\"", " --data '{\"b\": 2}'", " -d'{\"c\" :3}'",
     " x", " -d '{\"e\": {\"f\": 1}}'", " -d {\"g\": 1}"}

FormatInputs ==
    {"curl" \o Concat(ps) : ps \in UNION {[1..k -> FormatPieces] : k \in 0..MaxFmtPieces}}

InitFormat ==
    /\ PipeOff
    /\ ucmd \in FormatInputs
    /\ uphase = "line"
    /\ ures = NoResult

\* format_json_with_jq([ucmd])
UFormat ==
    /\ uphase = "line"
    /\ \E hasJq \in BOOLEAN, jqOk \in BOOLEAN :
          LET r == format_json_with_jq(<<ucmd>>, hasJq, <<jqOk>>)
          IN  ures' = [NoResult EXCEPT !.op = "format", !.ok = hasJq /\ jqOk,
                                       !.text = r.lines[1]]
    /\ uphase' = "formatted"
    /\ UNCHANGED ucmd
    /\ UNCHANGED pipeVars

NextFormat == UFormat

SpecFormat == InitFormat /\ [][NextFormat]_vars

\* the positions of "-d" in a one-line command at which a quoted object
\* literal follows, after a "curl"
PayloadSites(l) ==
    {b \in 1..Len(l) : PayloadAt(l, b)
                       /\ \E a \in 1..(b - 4) : Slice(l, a, a + 3) = "curl"}

\* l with the literal of the payload at b replaced by its compact form
SpliceAt(l, b) ==
    LET q == QuoteAfter(l, b)
        r == FindFrom(l, "}", q + 2)
    IN  (Slice(l, 1, q) \o Strip(jq_compact(Slice(l, q + 1, r)))) \o Slice(l, r + 1, Len(l))

\* C11 (as claimed): a rewritten command is the original with the literal
\* of its first data-flag match replaced and nothing else changed.
C11_FirstMatchSpliced ==
    (uphase = "formatted" /\ ures.text # ucmd) =>
        /\ PayloadSites(ucmd) # {}
        /\ ures.text = SpliceAt(ucmd, MinOf(PayloadSites(ucmd)))

\* C11 (amended): a rewritten one-line command is the original with the
\* literal of its last data-flag match replaced by jq's output: the text
\* before the literal and the text after it are kept character for
\* character; a command is rewritten only when jq ran and exited 0.
C11_LastMatchSpliced ==
    uphase = "formatted" =>
        /\ ures.text # ucmd =>
              /\ ures.ok
              /\ PayloadSites(ucmd) # {}
              /\ ures.text = SpliceAt(ucmd, MaxOf(PayloadSites(ucmd)))
        /\ (ures.ok /\ PayloadSites(ucmd) # {}) =>
              ures.text = SpliceAt(ucmd, MaxOf(PayloadSites(ucmd)))

\* of two payloads that both need compacting only the second was rewritten
C11_Witness ==
    /\ uphase = "formatted"
    /\ ucmd = "curl -d '{\"a\": 1}' -d'{\"c\" :3}'"
    /\ ures.text = "curl -d '{\"a\": 1}' -d'{\"c\":3}'"

-----------------------------------------------------------------------------
(* commands.py: extract_commands                                           *)

\* `for raw in f: raw_lines.append(raw.rstrip('\n'))` on the file's text
RECURSIVE read_lines(_, _)
read_lines(text, from) ==
    IF from > Len(text) THEN <<>>
    ELSE LET nl == FindFrom(text, "\n", from)
         IN  IF nl = 0 THEN <<Slice(text, from, Len(text))>>
             ELSE <<Slice(text, from, nl - 1)>> \o read_lines(text, nl + 1)

\* `raw.lstrip().startswith('#')` without the lstrip
is_comment_unindented(raw) == StartsWith(raw, "#")

\* `not raw.strip()`
is_blank(raw) == Strip(raw) = ""

\* `raw.lstrip().startswith('#')`
is_comment(raw) == StartsWith(LStrip(raw), "#")

\* the filter loop: the lines kept, each with its position in the buffer
\* (the position is kept only to name a command's start line)
RECURSIVE filter_lines(_, _)
filter_lines(raw_lines, i) ==
    IF i > Len(raw_lines) THEN <<>>
    ELSE IF is_blank(raw_lines[i]) \/ is_comment(raw_lines[i])
        THEN filter_lines(raw_lines, i + 1)
    ELSE <<[raw |-> raw_lines[i], at |-> i]>> \o filter_lines(raw_lines, i + 1)

\* ' '.join(part for part in parts if part.strip()): the parts not stripped
RECURSIVE join_parts_unstripped(_)
join_parts_unstripped(parts) ==
    IF parts = <<>> THEN ""
    ELSE LET rest == join_parts_unstripped(Tail(parts))
         IN  IF Strip(Head(parts)) = "" THEN rest
             ELSE IF rest = "" THEN Head(parts)
             ELSE (Head(parts) \o " ") \o rest

\* ' '.join(part.strip() for part in current if part.strip())
RECURSIVE join_parts(_)
join_parts(parts) ==
    IF parts = <<>> THEN ""
    ELSE LET head == Strip(Head(parts))
             rest == join_parts(Tail(parts))
         IN  IF head = "" THEN rest
             ELSE IF rest = "" THEN head
             ELSE (head \o " ") \o rest

CoalesceStart == [current |-> <<>>, began |-> 0, coalesced |-> <<>>, starts |-> <<>>]

\* flush_current putting the command in front of the list
flush_current_prepend(st) ==
    IF st.current # <<>> /\ join_parts(st.current) # ""
    THEN [current |-> <<>>, began |-> 0,
          coalesced |-> <<join_parts(st.current)>> \o st.coalesced,
          starts |-> <<st.began>> \o st.starts]
    ELSE [st EXCEPT !.current = <<>>, !.began = 0]

\* flush_current(); starts records the buffer position of the line that
\* began the command
flush_current(st) ==
    IF st.current # <<>> /\ join_parts(st.current) # ""
    THEN [current |-> <<>>, began |-> 0,
          coalesced |-> Append(st.coalesced, join_parts(st.current)),
          starts |-> Append(st.starts, st.began)]
    ELSE [st EXCEPT !.current = <<>>, !.began = 0]

\* the line kept with its trailing backslash
drop_backslash_keep(line) == line

\* line[:-1].rstrip()
drop_backslash(line) == RStrip(Slice(line, 1, Len(line) - 1))

\* the loop body testing raw, not raw.lstrip(), for the leading "curl"
coalesce_step_raw_start(st, rec) ==
    LET raw == rec.raw
        line == RStrip(raw)
        lstrip == LStrip(raw)
        is_continuation == \/ EndsWith(line, "\\")
                           \/ StartsWith(lstrip, "-")
                           \/ raw # lstrip
        kept == IF EndsWith(line, "\\") THEN drop_backslash(line) ELSE line
    IN  IF st.current = <<>>
        THEN IF StartsWith(raw, "curl")
             THEN LET opened == [st EXCEPT !.current = <<kept>>, !.began = rec.at]
                  IN  IF EndsWith(line, "\\") THEN opened ELSE flush_current(opened)
             ELSE st
        ELSE LET grown == [st EXCEPT !.current = Append(st.current, kept)]
             IN  IF is_continuation THEN grown ELSE flush_current(grown)

\* the continuation test without the indentation rule
is_continuation_no_indent(raw) ==
    \/ EndsWith(RStrip(raw), "\\")
    \/ StartsWith(LStrip(raw), "-")

\* is_continuation for a line read while a command is being built: the
\* line ends with a backslash, or starts with '-', or is indented
is_continuation(raw) ==
    \/ EndsWith(RStrip(raw), "\\")
    \/ StartsWith(LStrip(raw), "-")
    \/ raw # LStrip(raw)

\* every line read while idle starts a command
starts_command_any(raw) == TRUE

\* `lstrip.startswith('curl')` for a line read while idle
starts_command(raw) == StartsWith(LStrip(raw), "curl")

\* the body of `for raw in filtered`
coalesce_step(st, rec) ==
    LET raw == rec.raw
        line == RStrip(raw)
        kept == IF EndsWith(line, "\\") THEN drop_backslash(line) ELSE line
    IN  IF st.current = <<>>
        THEN IF starts_command(raw)
             THEN LET opened == [st EXCEPT !.current = <<kept>>, !.began = rec.at]
                  IN  IF EndsWith(line, "\\") THEN opened ELSE flush_current(opened)
             ELSE st
        ELSE LET grown == [st EXCEPT !.current = Append(st.current, kept)]
             IN  IF is_continuation(raw) THEN grown ELSE flush_current(grown)

\* the loop over filtered, from its i-th line
RECURSIVE coalesce(_, _, _)
coalesce(filtered, i, st) ==
    IF i > Len(filtered) THEN st
    ELSE LET next == coalesce_step(st, filtered[i])
         IN  IF next.began >= 0 THEN coalesce(filtered, i + 1, next) ELSE next

\* extract_commands(tmpfile) for a file with this text: coalesced, and the
\* start line of each command
extract_commands(text) ==
    LET st == flush_current(coalesce(filter_lines(read_lines(text, 1), 1), 1, CoalesceStart))
    IN  [commands |-> st.coalesced, starts |-> st.starts]

-----------------------------------------------------------------------------
(* extract_commands called on an edited buffer (SpecExtract)               *)

MaxLines == 3   \* lines of the edited buffer

\* lines of a buffer: curl start lines (plain, with a trailing backslash
\* and spaces after it, indented), continuation lines (indented option,
\* option, plain argument, a lone backslash), a blank line, an indented
\* comment, a line that starts with "curlx"
BufferLines ==
    {"curl a", "curl b \\ ", "  curl c", "  -H d", "-X e", "\"u\"", "",
     " # curl z", "curlx y", "\\"}

RECURSIVE JoinLines(_)
JoinLines(ls) ==
    IF ls = <<>> THEN ""
    ELSE IF Len(ls) = 1 THEN ls[1]
    ELSE (ls[1] \o "\n") \o JoinLines(Tail(ls))

\* one-line buffers: a curl line with up to MaxLines arguments, indented
\* or not, with or without trailing spaces and the final newline
LineLeads == {"", "  ", "\t"}

LineArgs == {" a", " -X b", "  \"u v\"", " c\\d"}

LineEnds == {"", " ", "\n"}

SingleLines ==
    {((lead \o "curl") \o Concat(as)) \o end :
        lead \in LineLeads, end \in LineEnds,
        as \in UNION {[1..k -> LineArgs] : k \in 0..MaxLines}}

BufferInputs ==
    {JoinLines(ls) : ls \in UNION {[1..k -> BufferLines] : k \in 0..MaxLines}}
    \cup SingleLines

InitExtract ==
    /\ PipeOff
    /\ ucmd \in BufferInputs
    /\ uphase = "buffer"
    /\ ures = NoResult

\* extract_commands(tmpfile), the file holding ucmd
UExtract ==
    /\ uphase = "buffer"
    /\ LET r == extract_commands(ucmd)
       IN  ures' = [NoResult EXCEPT !.op = "extract", !.parts = r.commands,
                                    !.starts = r.starts]
    /\ uphase' = "extracted"
    /\ UNCHANGED ucmd
    /\ UNCHANGED pipeVars

NextExtract == UExtract

SpecExtract == InitExtract /\ [][NextExtract]_vars


\* a line without content: nothing but whitespace, or '#' first
NoiseLine(l) == NoSpace(l) = "" \/ Ch(NoSpace(l), 1) = "#"

KeepsLine(l) == ~NoiseLine(l)

\* the lines of a buffer that carry content
Kept(text) == SelectSeq(read_lines(text, 1), KeepsLine)

\* a line's fragment: one trailing backslash removed, then trimmed
Frag(l) ==
    IF EndsWith(RStrip(l), "\\")
    THEN Strip(Slice(RStrip(l), 1, Len(RStrip(l)) - 1))
    ELSE Strip(l)

\* a line that completes the command being built
Terminator(l) ==
    ~EndsWith(RStrip(l), "\\") /\ ~StartsWith(LStrip(l), "-") /\ l = LStrip(l)

\* the last line of the command that the first line of ls begins
GroupEnd(ls) ==
    LET T == {i \in 2..Len(ls) : Terminator(ls[i])}
    IN  IF T = {} THEN Len(ls) ELSE MinOf(T)

\* the non-empty fragments of ls[i..k], with one space between them
RECURSIVE SpaceJoin(_, _, _)
SpaceJoin(ls, i, k) ==
    IF i > k THEN ""
    ELSE LET rest == SpaceJoin(ls, i + 1, k)
         IN  IF Frag(ls[i]) = "" THEN rest
             ELSE IF rest = "" THEN Frag(ls[i])
             ELSE (Frag(ls[i]) \o " ") \o rest

\* C12: a curl start line that ends in a backslash and the lines that
\* continue it become one command, the trimmed fragments in buffer order
\* with single spaces between them and the trailing backslashes removed;
\* when the buffer ends before a completing line, the command is still
\* emitted, and is the only one.
C12_ContinuationCoalesced ==
    uphase = "extracted" =>
        LET ls == Kept(ucmd)
        IN  (ls # <<>> /\ StartsWith(LStrip(ls[1]), "curl") /\ EndsWith(RStrip(ls[1]), "\\"))
            => /\ ures.parts # <<>>
               /\ ures.parts[1] = SpaceJoin(ls, 1, GroupEnd(ls))
               /\ (\A i \in 2..Len(ls) : ~Terminator(ls[i])) => Len(ures.parts) = 1

\* a start line with a backslash and an indented option line, emitted by
\* the flush at the end of the buffer
C12_Witness ==
    /\ uphase = "extracted"
    /\ ucmd = "curl b \\ \n  -H d"
    /\ ures.parts = <<"curl b -H d">>

\* C13: a buffer that is one line 'curl <args>' with no trailing backslash
\* gives exactly one command, the line trimmed.
C13_SingleLine ==
    (/\ uphase = "extracted"
     /\ FindFrom(ucmd, "\n", 1) \in {0, Len(ucmd)}
     /\ StartsWith(LStrip(ucmd), "curl")
     /\ ~EndsWith(RStrip(ucmd), "\\"))
    => ures.parts = <<Strip(ucmd)>>

\* an indented line with a quoted argument, trailing newline
C13_Witness ==
    /\ uphase = "extracted"
    /\ ucmd = "  curl -X b  \"u v\"\n"
    /\ ures.parts = <<"curl -X b  \"u v\"">>

\* C14: blank lines and comment lines are dropped before coalescing: the
\* result is that of the buffer without them, no command holds text of a
\* comment, and a buffer of blank and comment lines only gives no command.
C14_NoiseDropped ==
    uphase = "extracted" =>
        /\ ures.parts = extract_commands(JoinLines(Kept(ucmd))).commands
        /\ \A i \in 1..Len(ures.parts) : ~Contains(ures.parts[i], "#")
        /\ Kept(ucmd) = <<>> => ures.parts = <<>>

\* an indented comment between a start line and its continuation
C14_Witness ==
    /\ uphase = "extracted"
    /\ ucmd = "curl b \\ \n # curl z\n  -H d"
    /\ ures.parts = <<"curl b -H d">>

\* C15: the commands come in the order of their start lines in the buffer.
C15_StartOrder ==
    uphase = "extracted" =>
        /\ Len(ures.starts) = Len(ures.parts)
        /\ \A i \in 1..Len(ures.parts) :
              /\ ures.starts[i] \in 1..Len(read_lines(ucmd, 1))
              /\ StartsWith(ures.parts[i], Frag(read_lines(ucmd, 1)[ures.starts[i]]))
        /\ \A i, j \in 1..Len(ures.parts) : i < j => ures.starts[i] < ures.starts[j]

\* three different commands, in buffer order
C15_Witness ==
    /\ uphase = "extracted"
    /\ ures.parts = <<"curl c", "curlx y", "curl a">>
    /\ ures.starts = <<1, 2, 3>>

WordChars == "abcdefghijklmnopqrstuvwxyzABCDEFGHIJKLMNOPQRSTUVWXYZ0123456789_"

\* C16 (as claimed): every extracted command is non-empty and, trimmed,
\* begins with "curl" followed by a word boundary.
C16_CurlWordBoundary ==
    uphase = "extracted" =>
        \A i \in 1..Len(ures.parts) :
            LET c == Strip(ures.parts[i])
            IN  /\ c # ""
                /\ StartsWith(c, "curl")
                /\ Len(c) = 4 \/ ~Contains(WordChars, Ch(c, 5))

\* ---------------------------------------------------------------------
\* Termination of an execution (commands.py 443-453, cli.py 350-355)
\* ---------------------------------------------------------------------

\* The steps the program takes by itself are weakly fair. ExecWait is the
\* return of subprocess.run(parts, capture_output=True, text=True,
\* check=False): it is called without `timeout`, so it returns only when the
\* child exits, and nothing in the program makes the child exit. Confirm
\* waits for the user and Signal for the operating system. None of the
\* three is a step the program can force. ProgramStep is a move of main()
\* out of a position where it runs by itself: formatting, one turn of the
\* validation loop, run_command up to the spawn.
ProgramStep ==
    /\ pc \in {"extracted", "validate", "execute"}
    /\ pc' \in {"validate", "confirm", "execute", "wait", "done"}
    /\ idx' \in 0..(MaxBatch + 1)
    /\ <<pc', idx'>> # <<pc, idx>>

SpecLive ==
    /\ Init
    /\ [][Next]_vars
    /\ WF_<<pc, idx>>(ProgramStep)

\* C17: the execution of each command eventually ends: once curl has been
\* spawned the program leaves the wait for it, whatever the child does.
C17_ExecutionEnds == (pc = "wait") ~> (pc # "wait")

\* ---------------------------------------------------------------------
\* validate_command: line breaks, tokenization failures, blank strings
\* ---------------------------------------------------------------------

HasLineBreak(s) == Contains(s, "\n") \/ Contains(s, "\r")

\* C18 as stated: validate_command rejects every string that contains a
\* line feed or a carriage return at any position of the string it is given.
C18_LineBreakAnywhereRejected ==
    (uphase = "validated" /\ ures.op = "validate" /\ HasLineBreak(ucmd))
        => ~ures.ok

\* C18: validate_command rejects every string whose trimmed form (leading
\* and trailing whitespace removed, line breaks included) contains a line
\* feed or a carriage return, and it rejects it by the multiline rule,
\* before any pattern test or tokenization.
C18_LineBreakInTrimmedRejected ==
    (uphase = "validated" /\ ures.op = "validate" /\ HasLineBreak(Strip(ucmd)))
        => /\ ~ures.ok
           /\ ures.rule = "multiline"
           /\ ~ures.tokenized

C18_Witness ==
    /\ uphase = "validated" /\ ures.op = "validate"
    /\ ucmd = "\ncurl\rx\n"
    /\ ~ures.ok /\ ures.rule = "multiline"

\* C19: a string whose tokenization fails is rejected with an ordinary
\* False (by the except clause when no earlier rule decided, and never by an
\* exception that leaves validate_command), and the empty or whitespace-only
\* string is rejected by the empty rule.
C19_ParseFailureIsRejection ==
    (uphase = "validated" /\ ures.op = "validate") =>
        LET cmd == Strip(ucmd)
        IN  /\ cmd = "" => (~ures.ok /\ ures.rule = "empty")
            /\ (cmd # "" /\ ~shlex_split_posix(cmd).ok) =>
                  /\ ~ures.ok
                  /\ ures.rule \in {"multiline", "pattern", "parse"}
                  /\ (~HasLineBreak(cmd) /\ FirstPatternIn(DANGEROUS_PATTERNS, cmd) = "")
                        => (ures.rule = "parse" /\ ures.tokenized)

C19_Witness ==
    /\ uphase = "validated" /\ ures.op = "validate"
    /\ ucmd = "curl -X 'a"
    /\ ~ures.ok /\ ures.rule = "parse" /\ ures.tokenized

-----------------------------------------------------------------------------
(* commands.py: run_command, rendering of the captured standard output     *)

\* s repeated n times
RECURSIVE Repeat(_, _)
Repeat(s, n) ==
    IF n <= 0 THEN ""
    ELSE IF n = 1 THEN s
    ELSE LET h == Repeat(s, n \div 2)
         IN  IF n % 2 = 0 THEN h \o h ELSE (h \o h) \o s

JsonWhitespace == {" ", "\t", "\n", "\r"}
JsonDigits == {"0", "1", "2", "3", "4", "5", "6", "7", "8", "9"}

\* the first position at or after i whose character is not in cs
SkipWhile(s, i, cs) ==
    LET stop == {j \in i..Len(s) : Ch(s, j) \notin cs}
    IN  IF stop = {} THEN Len(s) + 1 ELSE CHOOSE j \in stop : \A k \in stop : j <= k

\* int(digits) raises ValueError above sys.int_info.default_max_str_digits
int_too_long(digits) == Len(digits) > 4300

JsonInt(digits) == [t |-> "int", digits |-> digits, items |-> <<>>]
JsonList(items) == [t |-> "list", digits |-> "", items |-> items]
JsonDict == [t |-> "dict", digits |-> "", items |-> <<>>]
JsonNone == [t |-> "none", digits |-> "", items |-> <<>>]

Scanned(val, next) == [kind |-> "ok", val |-> val, next |-> next]
ScanError(kind) == [kind |-> kind, val |-> JsonNone, next |-> 0]

\* json.scanner.scan_once at position i, for documents made of brackets,
\* braces, commas, digits and whitespace: a list, an object without
\* members, or an integer; anything else is "Expecting value"
RECURSIVE scan_once(_, _)
RECURSIVE scan_items(_, _, _)
scan_once(s, i) ==
    LET c == Ch(s, i)
    IN  IF c = "[" THEN
            LET j == SkipWhile(s, i + 1, JsonWhitespace)
            IN  IF Ch(s, j) = "]" THEN Scanned(JsonList(<<>>), j + 1)
                ELSE scan_items(s, j, <<>>)
        ELSE IF c = "{" THEN
            LET j == SkipWhile(s, i + 1, JsonWhitespace)
            IN  IF Ch(s, j) = "}" THEN Scanned(JsonDict, j + 1)
                ELSE ScanError("JSONDecodeError")
        ELSE IF c = "0" THEN Scanned(JsonInt("0"), i + 1)
        ELSE IF c \in JsonDigits THEN
            LET j == SkipWhile(s, i, JsonDigits)
                digits == Slice(s, i, j - 1)
            IN  IF int_too_long(digits) THEN ScanError("ValueError")
                ELSE Scanned(JsonInt(digits), j)
        ELSE ScanError("JSONDecodeError")

\* JSONArray after the opening bracket: a value, then `]` or `,` and the
\* next value
scan_items(s, i, acc) ==
    LET v == scan_once(s, i)
    IN  IF v.kind # "ok" THEN v
        ELSE LET j == SkipWhile(s, v.next, JsonWhitespace)
                 c == Ch(s, j)
             IN  IF c = "]" THEN Scanned(JsonList(Append(acc, v.val)), j + 1)
                 ELSE IF c = ","
                     THEN scan_items(s, SkipWhile(s, j + 1, JsonWhitespace),
                                     Append(acc, v.val))
                 ELSE ScanError("JSONDecodeError")

\* json.loads(s): one value between optional whitespace, "Extra data"
\* otherwise
json_loads(s) ==
    LET v == scan_once(s, SkipWhile(s, 1, JsonWhitespace))
    IN  IF v.kind # "ok" THEN v
        ELSE IF SkipWhile(s, v.next, JsonWhitespace) # Len(s) + 1
            THEN ScanError("JSONDecodeError")
        ELSE v

\* json.dumps(data, indent=2, ensure_ascii=False) at nesting depth level
RECURSIVE json_dumps(_, _)
RECURSIVE dump_items(_, _, _)
json_dumps(data, level) ==
    IF data.t = "int" THEN data.digits
    ELSE IF data.t = "dict" THEN "{}"
    ELSE IF data.items = <<>> THEN "[]"
    ELSE (("[\n" \o dump_items(data.items, 1, level + 1))
            \o ("\n" \o Repeat("  ", level))) \o "]"

dump_items(items, k, level) ==
    LET item == Repeat("  ", level) \o json_dumps(items[k], level)
    IN  IF k = Len(items) THEN item
        ELSE (item \o ",\n") \o dump_items(items, k + 1, level)

\* `(trimmed.startswith('{') and out.rstrip().endswith('}')) or
\*  (trimmed.startswith('[') and out.rstrip().endswith(']'))`
looks_like_json(out) ==
    LET trimmed == LStrip(out)
    IN  \/ StartsWith(trimmed, "{") /\ EndsWith(RStrip(out), "}")
        \/ StartsWith(trimmed, "[") /\ EndsWith(RStrip(out), "]")

Rendered(mode, text) == [mode |-> mode, text |-> text]

\* the `if result.stdout:` block of run_command: what is printed after the
\* STDOUT header. "pretty": the re-serialised document; "raw":
\* result.stdout; "none": no output block; "print_error": json.loads raised
\* an exception that `except json.JSONDecodeError` does not catch, the
\* `except Exception` at the end of run_command calls print_error, and the
\* process exits with status 1
render_stdout(stdout) ==
    LET out == Strip(stdout)
        r == json_loads(out)
    IN  IF stdout = "" THEN Rendered("none", "")
        ELSE IF out # "" /\ looks_like_json(out)
            THEN IF r.kind = "ok" THEN Rendered("pretty", json_dumps(r.val, 0))
                 ELSE IF r.kind = "JSONDecodeError" THEN Rendered("raw", stdout)
                 ELSE Rendered("print_error", "")
        ELSE Rendered("raw", stdout)

\* the captured standard output of a curl child: documents of brackets,
\* braces, commas, a digit and spaces, as curl writes them and followed by
\* a newline, and two lists of one integer of 4300 and of 4301 digits
MaxOut == 4   \* characters of a short document

OutChars == {"[", "]", "{", "}", "1", ",", " "}

OutTails == {"", "\n"}

LongDocs == {("[" \o Repeat("1", n)) \o "]\n" : n \in {4300, 4301}}

StdoutInputs ==
    {Concat(cs) \o tail :
        cs \in UNION {[1..k -> OutChars] : k \in 0..MaxOut}, tail \in OutTails}
    \cup LongDocs

InitRender ==
    /\ PipeOff
    /\ ucmd \in StdoutInputs
    /\ uphase = "stdout"
    /\ ures = NoResult

\* run_command renders result.stdout = ucmd
URender ==
    /\ uphase = "stdout"
    /\ LET r == render_stdout(ucmd)
       IN  ures' = [NoResult EXCEPT !.op = "render", !.mode = r.mode, !.text = r.text]
    /\ uphase' = "rendered"
    /\ UNCHANGED ucmd
    /\ UNCHANGED pipeVars

NextRender == URender

SpecRender == InitRender /\ [][NextRender]_vars

\* ---------------------------------------------------------------------
\* Rendering of the standard output (commands.py 503-541)
\* ---------------------------------------------------------------------

\* the trimmed text starts with `{` and ends with `}`, or starts with `[`
\* and ends with `]`
BracketShape(out) ==
    \/ StartsWith(out, "{") /\ EndsWith(out, "}")
    \/ StartsWith(out, "[") /\ EndsWith(out, "]")

\* C20: the captured standard output is pretty-printed exactly when its
\* trimmed text has the bracket shape and parses; in every other case the
\* raw text is rendered unchanged, and a parse failure never ends the
\* command or the run.
C20_RenderingRule ==
    (uphase = "rendered" /\ ures.op = "render" /\ ucmd # "") =>
        LET out == Strip(ucmd)
            parses == json_loads(out).kind = "ok"
        IN  /\ (ures.mode = "pretty") <=> (BracketShape(out) /\ parses)
            /\ ~(BracketShape(out) /\ parses) =>
                  (ures.mode = "raw" /\ ures.text = ucmd)

-----------------------------------------------------------------------------
(* cli.py: main(), from the command line to the editor                     *)

MaxArgs == 2   \* command-line arguments after the program name

UrlValue == "h://x"

ArgPool == {"--help", "-v", "--install", "--debug", "--url=h://x", "--url", UrlValue}

ArgvInputs == UNION {[1..k -> ArgPool] : k \in 0..MaxArgs}

\* argparse: `--url` takes the next argument as its value; it fails when
\* there is none or when the next argument looks like an option
url_missing(argv) ==
    \E i \in 1..Len(argv) :
        /\ argv[i] = "--url"
        /\ (i = 1 \/ argv[i - 1] # "--url")
        /\ (i = Len(argv) \/ StartsWith(argv[i + 1], "-"))

\* args.url: the value of the last --url, "" when there is none
url_of(argv) ==
    LET given == {i \in 1..Len(argv) :
                    \/ StartsWith(argv[i], "--url=")
                    \/ (i > 1 /\ argv[i - 1] = "--url")}
        last == CHOOSE i \in given : \A j \in given : i >= j
    IN  IF given = {} THEN ""
        ELSE IF StartsWith(argv[last], "--url=") /\ ~(last > 1 /\ argv[last - 1] = "--url")
            THEN Slice(argv[last], 7, Len(argv[last]))
        ELSE argv[last]

\* an option given as an argument of its own, not as the value of --url
has_flag(argv, names) ==
    \E i \in 1..Len(argv) :
        argv[i] \in names /\ ~(i > 1 /\ argv[i - 1] = "--url")

\* parser.parse_known_args() and the three early returns of main
parse_args(argv) ==
    IF url_missing(argv) THEN "argparse_error"
    ELSE IF has_flag(argv, {"--help", "-h"}) THEN "help"
    ELSE IF has_flag(argv, {"--version", "-v"}) THEN "version"
    ELSE IF has_flag(argv, {"--install"}) THEN "install"
    ELSE "run"

\* the parameters of `def create_template_file() -> str:`
create_template_file_params == {}

\* the call main makes: create_template_file(base_url=base_url)
create_template_file_kwargs == {"base_url"}

\* Python binds the keyword arguments of a call to the parameters of the
\* function; a keyword that names no parameter raises TypeError
call_binds(params, kwargs) == kwargs \subseteq params

\* the last line of the template, where the user writes
template_text(os) == IF os = "nt" THEN "curl.exe " ELSE "curl "

InitMain ==
    /\ PipeOff
    /\ ucmd = ""
    /\ uphase = "main"
    /\ \E argv \in ArgvInputs : ures = [NoResult EXCEPT !.argv = argv]

\* main: argument parsing, --help, --version, --install
MParse ==
    /\ uphase = "main"
    /\ LET p == parse_args(ures.argv)
       IN  /\ ures' = [ures EXCEPT !.op = "main", !.mode = p,
                                   !.base = IF p = "run" THEN url_of(ures.argv) ELSE ""]
           /\ uphase' = IF p = "argparse_error" THEN "exited"
                        ELSE IF p = "run" THEN "check_dependencies"
                        ELSE "returned"
    /\ UNCHANGED ucmd
    /\ UNCHANGED pipeVars

\* check_dependencies(): print_error when curl is not on the PATH
MDeps ==
    /\ uphase = "check_dependencies"
    /\ \E curlFound \in BOOLEAN :
          /\ ures' = [ures EXCEPT !.ok = curlFound,
                                  !.outcome = IF curlFound THEN "" ELSE "print_error"]
          /\ uphase' = IF curlFound THEN "create_template" ELSE "exited"
    /\ UNCHANGED ucmd
    /\ UNCHANGED pipeVars

\* `tmpfile = create_template_file(base_url=base_url)` and
\* `open_editor(tmpfile)`
MTemplate ==
    /\ uphase = "create_template"
    /\ IF call_binds(create_template_file_params, create_template_file_kwargs)
       THEN /\ ures' = [ures EXCEPT !.text = template_text(osName),
                                    !.outcome = "open_editor"]
            /\ uphase' = "editor"
       ELSE /\ ures' = [ures EXCEPT !.outcome = "TypeError"]
            /\ uphase' = "raised"
    /\ UNCHANGED ucmd
    /\ UNCHANGED pipeVars

NextMain ==
    \/ MParse
    \/ MDeps
    \/ MTemplate

SpecMain == InitMain /\ [][NextMain]_vars

\* C21: a normal run of main (no --help, --version, --install), with or
\* without --url, that has passed the dependency check and left the
\* template step has created the template (with the base URL in it when
\* --url was given) and opened the editor on it.
C21_NormalRunOpensEditor ==
    (/\ ures.op = "main" /\ ures.mode = "run" /\ ures.ok
     /\ uphase \notin {"check_dependencies", "create_template"}) =>
        /\ uphase = "editor"
        /\ ures.text # ""
        /\ ures.base # "" => Contains(ures.text, ures.base)

-----------------------------------------------------------------------------
(* extract_commands run line by line (SpecCoalesce): ures.want holds the   *)
(* filtered lines not yet read, ures.argv is `current`, ures.parts is      *)
(* `coalesced`, ures.pos the buffer position of the line that began        *)
(* `current`, ures.token the line read last and ures.mode whether a        *)
(* command was being built when it was read                                *)

CoalescerOf(r) ==
    [current |-> r.argv, began |-> r.pos, coalesced |-> r.parts, starts |-> r.starts]

InitCoalesce ==
    /\ PipeOff
    /\ ucmd \in BufferInputs
    /\ uphase = "buffer"
    /\ ures = NoResult

\* the file is read and its blank and comment lines are filtered out
UFilter ==
    /\ uphase = "buffer"
    /\ ures' = [NoResult EXCEPT !.op = "coalesce",
                                !.want = filter_lines(read_lines(ucmd, 1), 1)]
    /\ uphase' = "coalescing"
    /\ UNCHANGED ucmd
    /\ UNCHANGED pipeVars

\* one turn of `for raw in filtered`
UStep ==
    /\ uphase = "coalescing"
    /\ ures.want # <<>>
    /\ LET st == coalesce_step(CoalescerOf(ures), Head(ures.want))
       IN  ures' = [ures EXCEPT !.want = Tail(ures.want),
                                !.argv = st.current, !.pos = st.began,
                                !.parts = st.coalesced, !.starts = st.starts,
                                !.token = Head(ures.want).raw,
                                !.mode = IF ures.argv = <<>> THEN "idle" ELSE "building"]
    /\ UNCHANGED <<ucmd, uphase>>
    /\ UNCHANGED pipeVars

\* the flush after the loop, and the return of coalesced
UFlush ==
    /\ uphase = "coalescing"
    /\ ures.want = <<>>
    /\ LET st == flush_current(CoalescerOf(ures))
       IN  ures' = [NoResult EXCEPT !.op = "extract", !.parts = st.coalesced,
                                    !.starts = st.starts]
    /\ uphase' = "extracted"
    /\ UNCHANGED ucmd
    /\ UNCHANGED pipeVars

NextCoalesce ==
    \/ UFilter
    \/ UStep
    \/ UFlush

SpecCoalesce == InitCoalesce /\ [][NextCoalesce]_vars

\* the line the loop reads next
NextLine == Head(ures.want).raw

Reading == uphase = "coalescing" /\ ures.want # <<>>

\* the text of a command: the non-empty trimmed fragments, one space apart
RECURSIVE JoinFrags(_)
JoinFrags(fs) ==
    IF fs = <<>> THEN ""
    ELSE LET rest == JoinFrags(Tail(fs))
         IN  IF Strip(Head(fs)) = "" THEN rest
             ELSE IF rest = "" THEN Strip(Head(fs))
             ELSE (Strip(Head(fs)) \o " ") \o rest

\* C22: while a command is being built, the line read keeps it open
\* exactly when it ends with a backslash (which is removed), or else its
\* content starts with '-', or else it is indented; any other line is
\* appended and the command is flushed at once.
C22_BuildingStep ==
    [][(Reading /\ ures.argv # <<>>) =>
        LET raw == NextLine
            line == RStrip(raw)
        IN  IF EndsWith(line, "\\")
            THEN /\ ures'.argv = Append(ures.argv, RStrip(Slice(line, 1, Len(line) - 1)))
                 /\ ures'.parts = ures.parts
            ELSE IF StartsWith(LStrip(raw), "-") \/ raw # LStrip(raw)
            THEN /\ ures'.argv = Append(ures.argv, line)
                 /\ ures'.parts = ures.parts
            ELSE /\ ures'.argv = <<>>
                 /\ ures'.parts = Append(ures.parts, JoinFrags(Append(ures.argv, line)))]_vars

\* an unindented argument line completed the command that a start line and
\* an option line had built
C22_Witness ==
    /\ uphase = "coalescing"
    /\ ucmd = "curl b \\ \n-X e\n\"u\""
    /\ ures.mode = "building" /\ ures.token = "\"u\""
    /\ ures.argv = <<>>
    /\ ures.parts = <<"curl b -X e \"u\"">>

\* C23: when no command is in progress and the line read does not start
\* with 'curl' after its leading whitespace, the line is discarded: the
\* coalescer stays idle and the commands so far are unchanged.
C23_IdleDiscard ==
    [][(Reading /\ ures.argv = <<>> /\ ~StartsWith(LStrip(NextLine), "curl")) =>
        /\ ures'.argv = <<>>
        /\ ures'.parts = ures.parts
        /\ ures'.starts = ures.starts]_vars

\* an option line after a completed one-line command was discarded
C23_Witness ==
    /\ uphase = "coalescing"
    /\ ucmd = "curl a\n  -H d\ncurl a"
    /\ ures.mode = "idle" /\ ures.token = "  -H d"
    /\ ures.argv = <<>>
    /\ ures.parts = <<"curl a">>

\* ---------------------------------------------------------------------
\* extract_commands: option lines, start lines, conservation (SpecExtract)
\* ---------------------------------------------------------------------

StartLine(l) == StartsWith(LStrip(l), "curl")

\* a line that the extraction rules call a continuation by itself: its
\* content starts with '-', or it is indented
OptionLine(l) == ~StartLine(l) /\ (StartsWith(LStrip(l), "-") \/ l # LStrip(l))

\* C24 (as claimed): an option line or an indented line that directly
\* follows a curl start line is joined into that line's command, also when
\* the start line has no trailing backslash.
C24_FlagPerLineJoined ==
    uphase = "extracted" =>
        LET ls == Kept(ucmd)
        IN  \A i \in 1..(Len(ls) - 1) :
                (StartLine(ls[i]) /\ OptionLine(ls[i + 1]))
                => \E k \in 1..Len(ures.parts) :
                       Contains(ures.parts[k], (Frag(ls[i]) \o " ") \o Frag(ls[i + 1]))

\* the kept lines that start with 'curl'
StartLines(ls) == {i \in 1..Len(ls) : StartLine(ls[i])}

\* C25 (as claimed): every line whose content starts with 'curl' starts a
\* command of its own, whatever the coalescer state: there are as many
\* commands as such lines, and the k-th command begins with the text of the
\* k-th such line.
C25_EveryCurlLineStarts ==
    uphase = "extracted" =>
        LET ls == Kept(ucmd)
            S == StartLines(ls)
        IN  /\ Len(ures.parts) = Cardinality(S)
            /\ \A k \in 1..Len(ures.parts) :
                  \E i \in S : /\ Cardinality({j \in S : j <= i}) = k
                               /\ StartsWith(ures.parts[k], Frag(ls[i]))

\* the commands of the kept lines ls from line i on: a line read while idle
\* that does not start with 'curl' is left out; a start line without a
\* trailing backslash is a command by itself; a start line with one takes
\* the lines up to the first completing line, each line once and in order
RECURSIVE Groups(_, _)
Groups(ls, i) ==
    IF i > Len(ls) THEN <<>>
    ELSE IF ~StartLine(ls[i]) THEN Groups(ls, i + 1)
    ELSE LET e == IF EndsWith(RStrip(ls[i]), "\\")
                  THEN i - 1 + GroupEnd(SubSeq(ls, i, Len(ls)))
                  ELSE i
         IN  <<SpaceJoin(ls, i, e)>> \o Groups(ls, e + 1)

\* C30: every non-blank, non-comment line is either left out while no
\* command is in progress, or gives its trimmed text, without a trailing
\* continuation backslash, to exactly one command; the lines of a command
\* are consecutive and in buffer order, and nothing is duplicated or lost.
C30_Conservation ==
    uphase = "extracted" => ures.parts = Groups(Kept(ucmd), 1)

\* a line left out while idle, then a command of two lines
C30_Witness ==
    /\ uphase = "extracted"
    /\ ucmd = "-X e\ncurl b \\ \n  -H d"
    /\ ures.parts = <<"curl b -H d">>

\* ---------------------------------------------------------------------
\* validate_command: the per-token substitution check (SpecUnit)
\* ---------------------------------------------------------------------

\* validate_command without the test of non-flag tokens for a backquote,
\* "$(" and "${"
AcceptsWithoutTokenCheck(command) ==
    LET cmd == Strip(command)
        sp == shlex_split_posix(cmd)
    IN  /\ cmd # ""
        /\ ~HasLineBreak(cmd)
        /\ FirstPatternIn(DANGEROUS_PATTERNS, cmd) = ""
        /\ sp.ok
        /\ sp.parts # <<>> /\ sp.parts[1] = ALLOWED_CMD
        /\ \A i \in 2..Len(sp.parts) :
              StartsWith(sp.parts[i], "-") =>
                  /\ SplitEqHead(sp.parts[i]) \notin BLOCKED_FLAGS
                  /\ SplitEqHead(sp.parts[i]) \in ALLOWED_FLAGS

\* C29: the test of the non-flag tokens for command substitution never
\* decides: no string is rejected by it, a string whose token holds one of
\* its patterns is rejected by the whole-string scan before tokenization,
\* and validate_command without the test accepts the same strings.
C29_TokenCheckNeverDecides ==
    (uphase \in {"validated", "revalidated"}) =>
        /\ ures.rule # "substitution"
        /\ ures.ok = AcceptsWithoutTokenCheck(ucmd)
        /\ (\E p \in Range(ARG_PATTERNS) : Contains(ucmd, p)) =>
              (~ures.ok /\ ures.rule \in {"multiline", "pattern"} /\ ~ures.tokenized)

\* "$(" inside a single-quoted argument, rejected by the whole-string scan
C29_Witness ==
    /\ uphase = "validated"
    /\ ucmd = "curl x 'a$(b'"
    /\ ~ures.ok /\ ures.rule = "pattern" /\ ~ures.tokenized

\* ---------------------------------------------------------------------
\* The argument vector checked and the argument vector run (SpecUnit)
\* ---------------------------------------------------------------------

\* C28 (as claimed): when run_curl_command spawns a process, the argument
\* vector it passes is the one validate_command tokenized and checked for
\* the same string, with windows=False and with windows=True.
C28_SameArgv ==
    (uphase = "ran" /\ ures.spawned) =>
        ures.argv = validate_trace(ucmd).parts

\* ---------------------------------------------------------------------
\* Signals during the execution loop (Spec)
\* ---------------------------------------------------------------------

\* the process was ended by SIGINT or SIGTERM while main() was in the
\* execution loop (about to run a command, or waiting for curl)
SignalledInBatch ==
    pc = "done" /\ exitVia = "signal" /\ exitAt \in {"execute", "wait"}

\* C26: once SIGINT or SIGTERM has arrived during the execution loop, the
\* tracked temporary files have been cleaned up, no curl child is left
\* running, the process has exited with status 1, and from then on no
\* further command is attempted or spawned.
C26_SignalStopsBatch ==
    /\ [](SignalledInBatch =>
             tempClean /\ child # "running" /\ exitCode = SignalStatus)
    /\ [][SignalledInBatch =>
             (spawned' = spawned /\ attempted' = attempted /\ child' = child)]_vars

\* the signal arrived while curl was running for the first of several
\* commands: the child was killed and the rest of the batch never ran
C26_Witness ==
    /\ SignalledInBatch
    /\ exitAt = "wait"
    /\ child = "killed"
    /\ Len(spawned) = 1
    /\ Len(commands) > 1

\* ---------------------------------------------------------------------
\* The confirmation gate (Spec)
\* ---------------------------------------------------------------------

\* confirm_execution has been called and has returned
Asked == ures.op = "confirm"

\* the user pressed Enter at the prompt or OK in the message box
UserConfirmed == ures.mode = "enter" \/ ures.rule = "ok"

\* sys.stdin is None, or input() raised RuntimeError, EOFError or OSError
StdinUnavailable == ures.mode \in {"none", "eof"}

\* C27 (as claimed): commands are run only after confirm_execution returned
\* True; it returns True only on user confirmation or, with stdin
\* unavailable, on a platform that is not Windows; it returns False only on
\* a cancel.
C27_ConfirmGate ==
    /\ attempted # <<>> => confirmed = "yes"
    /\ confirmed = "yes" =>
          UserConfirmed \/ (StdinUnavailable /\ osName # "nt")
    /\ confirmed = "no" => ures.rule = "cancel"

\* C27 (amended): commands are run only after confirm_execution returned
\* True; it returns True exactly on user confirmation or, with stdin
\* unavailable, when the platform is not Windows or the message box call
\* raised; it returns False exactly when the message box returned a value
\* other than IDOK.
C27_ConfirmGateWithBoxFailure ==
    /\ attempted # <<>> => confirmed = "yes"
    /\ (confirmed = "none") = ~Asked
    /\ Asked =>
          /\ (confirmed = "yes") =
                (\/ UserConfirmed
                 \/ StdinUnavailable /\ (osName # "nt" \/ ures.rule = "error"))
          /\ (confirmed = "no") = (ures.rule = "cancel")

\* on Windows, with stdin unavailable and the message box call raising,
\* confirm_execution returned True and a command was run
C27_Witness ==
    /\ osName = "nt"
    /\ StdinUnavailable
    /\ ures.rule = "error"
    /\ confirmed = "yes"
    /\ spawned # <<>>

====
